---- MODULE Spec2Model ----
(***************************************************************************)
(* Model of the voice appointment-booking agent: the per-call customer     *)
(* record (models.py UserData), the static workers table (database.py      *)
(* WorkersTable) and the agent's function tools (agent.py VoiceAgent).     *)
(***************************************************************************)
EXTENDS Integers, Sequences, FiniteSets, TLC

VARIABLES userdata, service_type, offered, last, ended, appointments

vars == <<userdata, service_type, offered, last, ended, appointments>>

\* Python's None.  Every string of the model differs from it.
None == "<None>"

\* ---------------------------------------------------------------- models.py

\* class ServiceType(Enum): the members, in declaration order.
ServiceType == <<"PLUMBING", "PEST_CONTROL", "ROOFING_ISSUES">>

\* member.value
ServiceValue(m) ==
    CASE m = "PLUMBING" -> "Plumbing"
      [] m = "PEST_CONTROL" -> "Pest Control"
      [] m = "ROOFING_ISSUES" -> "Roofing Issues"

Range(f) == {f[i] : i \in DOMAIN f}

\* Python truthiness of an Optional[str] / Optional[ServiceType].
Truthy(v) == v /= None /\ v /= ""

\* UserData(): the dataclass defaults.
UserDataInit ==
    [name |-> None, phone_number |-> None, address |-> None,
     postal_code |-> None, reason_of_call |-> None, appointment_time |-> None]

\* UserData.set_reason_of_call, scanning the members from index i: the first
\* member whose value equals the text; the record stores the text itself.
RECURSIVE ScanReason(_, _, _)
ScanReason(ud, reason, i) ==
    IF i > Len(ServiceType) THEN [ud |-> ud, ret |-> None]
    ELSE IF ServiceValue(ServiceType[i]) = reason
         THEN [ud |-> [ud EXCEPT !.reason_of_call = reason], ret |-> ServiceType[i]]
         ELSE ScanReason(ud, reason, i + 1)

\* Mutant: the text is stripped before it is compared (reason.strip()).
set_reason_of_call_strip(ud, reason) ==
    ScanReason(ud, IF reason = " Plumbing" THEN "Plumbing" ELSE reason, 1)

set_reason_of_call(ud, reason) == ScanReason(ud, reason, 1)

\* Mutant: every unset field gets the "unknown" default.
summarize_all_unknown(ud) ==
    << <<"customer_name", IF Truthy(ud.name) THEN ud.name ELSE "unknown">>,
       <<"customer_phone", IF Truthy(ud.phone_number) THEN ud.phone_number ELSE "unknown">>,
       <<"address", IF Truthy(ud.address) THEN ud.address ELSE "unknown">>,
       <<"postal_code", IF Truthy(ud.postal_code) THEN ud.postal_code ELSE "unknown">>,
       <<"reason_of_call", ud.reason_of_call>>,
       <<"appointment_time", ud.appointment_time>> >>

\* UserData.summarize: the fixed-key mapping, as an ordered list of pairs.
summarize(ud) ==
    << <<"customer_name", IF Truthy(ud.name) THEN ud.name ELSE "unknown">>,
       <<"customer_phone", IF Truthy(ud.phone_number) THEN ud.phone_number ELSE "unknown">>,
       <<"address", ud.address>>,
       <<"postal_code", ud.postal_code>>,
       <<"reason_of_call", ud.reason_of_call>>,
       <<"appointment_time", ud.appointment_time>> >>

\* -------------------------------------------------------------- database.py

\* A slot is <<date, time>>, date = <<year, month, day>>, time = <<hour, minute>>.
Slot(y, mo, d, h, mi) == << <<y, mo, d>>, <<h, mi>> >>

\* WorkersTable._get_workers: the two workers in registration order, each
\* with its skills and its availabilities in insertion order.
get_workers ==
    << [worker_id |-> 0, name |-> "Masih",
        skills |-> <<"PLUMBING", "PEST_CONTROL">>,
        availabilities |-> << Slot(2025, 8, 21, 16, 0), Slot(2025, 8, 21, 17, 0),
                              Slot(2025, 8, 22, 10, 0), Slot(2025, 8, 22, 12, 0) >>],
       [worker_id |-> 1, name |-> "Ali",
        skills |-> <<"PLUMBING", "ROOFING_ISSUES">>,
        availabilities |-> << Slot(2025, 8, 22, 12, 0), Slot(2025, 8, 23, 18, 0),
                              Slot(2025, 8, 23, 11, 0) >>] >>

\* Tuple comparison of Python, on tuples of integers of equal length.
RECURSIVE TupleLess(_, _)
TupleLess(a, b) ==
    IF a = <<>> \/ b = <<>> THEN a = <<>> /\ b /= <<>>
    ELSE IF Head(a) /= Head(b) THEN Head(a) < Head(b)
         ELSE TupleLess(Tail(a), Tail(b))

\* The sort key lambda s: (s[0], s[1]) and its order.
KeyLess(s, t) ==
    \/ TupleLess(s[1], t[1])
    \/ s[1] = t[1] /\ TupleLess(s[2], t[2])

\* sorted(slots, key=...): the smallest key first, repeatedly.
RECURSIVE SortedByKey(_)
SortedByKey(S) ==
    IF S = {} THEN <<>>
    ELSE LET m == CHOOSE x \in S : \A y \in S : ~KeyLess(y, x)
         IN  <<m>> \o SortedByKey(S \ {m})

\* Mutant: the availabilities of the skilled workers are concatenated in
\* registration order, neither deduplicated nor sorted.
RECURSIVE ConcatAvailabilities(_, _)
ConcatAvailabilities(skill, i) ==
    IF i > Len(get_workers) THEN <<>>
    ELSE (IF skill \in Range(get_workers[i].skills)
          THEN get_workers[i].availabilities ELSE <<>>)
         \o ConcatAvailabilities(skill, i + 1)

get_all_availabilities_concat(skill) == ConcatAvailabilities(skill, 1)

\* WorkersTable.get_all_availabilities: the set comprehension, then sorted.
get_all_availabilities(skill) ==
    LET ws == get_workers
        slots == UNION { Range(ws[i].availabilities) :
                         i \in {j \in DOMAIN ws : skill \in Range(ws[j].skills)} }
    IN  SortedByKey(slots)

\* WorkersTable.get_next_free_worker, scanning the workers from index i.  An
\* Optional[Worker] is a sequence of at most one worker: <<>> is None.
RECURSIVE ScanWorkers(_, _)
ScanWorkers(appointment_time, i) ==
    IF i > Len(get_workers) THEN <<>>
    ELSE IF appointment_time \in Range(get_workers[i].availabilities)
         THEN <<get_workers[i]>>
         ELSE ScanWorkers(appointment_time, i + 1)

\* Mutant: the scan keeps the last worker that holds the slot (no early return).
RECURSIVE ScanWorkersLast(_, _)
ScanWorkersLast(appointment_time, i) ==
    IF i < 1 THEN <<>>
    ELSE IF appointment_time \in Range(get_workers[i].availabilities)
         THEN <<get_workers[i]>>
         ELSE ScanWorkersLast(appointment_time, i - 1)

get_next_free_worker_last(appointment_time) ==
    ScanWorkersLast(appointment_time, Len(get_workers))

\* Mutant: the scan starts after the first registered worker.
get_next_free_worker_after_first(appointment_time) == ScanWorkers(appointment_time, 2)

get_next_free_worker(appointment_time) == ScanWorkers(appointment_time, 1)

\* ----------------------------------------------------------------- agent.py

\* ', '.join(seq)
RECURSIVE Join(_)
Join(seq) ==
    IF seq = <<>> THEN ""
    ELSE IF Len(seq) = 1 THEN seq[1]
         ELSE seq[1] \o ", " \o Join(Tail(seq))

\* strftime: %Y (four digits for these years), %m %d %H %M (two digits).
Pad2(n) == IF n < 10 THEN "0" \o ToString(n) ELSE ToString(n)

\* f"{slot[0].strftime('%Y-%m-%d')} at {slot[1].strftime('%H:%M')}"
SlotString(slot) ==
    ToString(slot[1][1]) \o "-" \o Pad2(slot[1][2]) \o "-" \o Pad2(slot[1][3])
        \o " at " \o Pad2(slot[2][1]) \o ":" \o Pad2(slot[2][2])

\* [service.value for service in ServiceType]
ServiceValues == [i \in DOMAIN ServiceType |-> ServiceValue(ServiceType[i])]

\* str(v) inside an f-string.
Str(v) == IF v = None THEN "None" ELSE v

\* The sessions: entrypoint gives each its own UserData and VoiceAgent.
Sessions == {"s1", "s2"}

\* The session whose call is in progress.
Callers == {"s1"}

\* Arguments the language model may pass.
NameArgs == {None, "", "Sam"}
NumberArgs == {None, "555"}
AddressArgs == {None, "9 Elm St"}
PostalArgs == {None, "K1A"}
ReasonArgs == {"Plumbing", "Pest Control", "Roofing Issues", "plumbing", " Plumbing", "Gardening"}
AllSlots == UNION {Range(get_workers[i].availabilities) : i \in DOMAIN get_workers}
TimeArgs == {SlotString(sl) : sl \in AllSlots} \cup {"2025-08-21 at 09:00", "2025-8-21 at 16:00"}

\* The five bound function tools of base_tools, by name.
BaseTools ==
    << [name |-> "update_user_info"], [name |-> "convince_user"],
       [name |-> "update_reason_of_call"], [name |-> "get_available_times"],
       [name |-> "final_double_check"] >>

\* build_set_appointment_tool: the closure keeps the service type and the
\* availabilities computed when the tool is built.
build_set_appointment_tool(st) ==
    LET available_times == get_all_availabilities(st)
    IN  [name |-> "set_appointment_time",
         service_type |-> st,
         available_times |-> available_times,
         available_time_strings |->
             [i \in DOMAIN available_times |-> SlotString(available_times[i])]]

\* Mutant: the booking tool is appended whatever self.service_type is.
tools_always_booking(st) == Append(BaseTools, build_set_appointment_tool(st))

\* VoiceAgent.tools: base_tools, plus a freshly built booking tool when
\* self.service_type is truthy.
tools(st) ==
    IF Truthy(st) THEN Append(BaseTools, build_set_appointment_tool(st))
    ELSE BaseTools

Names(ts) == {ts[i].name : i \in DOMAIN ts}

\* What a tool call hands back: its text, returned or raised as a ToolError.
Result(s, op, args, raised, text) ==
    [op |-> op, session |-> s, args |-> args, raised |-> raised, text |-> text]

\* Mutant: the early return for "no fields" is missing.
UpdateUserInfoNoGuard(ud, name, number, address, postal_code) ==
    LET ud1 == IF name /= None THEN [ud EXCEPT !.name = name] ELSE ud
        ud2 == IF number /= None THEN [ud1 EXCEPT !.phone_number = number] ELSE ud1
        ud3 == IF address /= None THEN [ud2 EXCEPT !.address = address] ELSE ud2
        ud4 == IF postal_code /= None THEN [ud3 EXCEPT !.postal_code = postal_code] ELSE ud3
        updated ==
            (IF name /= None THEN << <<"name", name>> >> ELSE <<>>)
            \o (IF number /= None THEN << <<"phone number", number>> >> ELSE <<>>)
            \o (IF address /= None THEN << <<"address", address>> >> ELSE <<>>)
            \o (IF postal_code /= None THEN << <<"postal code", postal_code>> >> ELSE <<>>)
    IN  [ud |-> ud4,
         text |-> "Updated: " \o
             (IF updated /= <<>>
              THEN Join([i \in DOMAIN updated |-> updated[i][1] \o " to " \o updated[i][2]])
              ELSE "Nothing")]

\* update_user_info on a record: the record afterwards and the text returned.
UpdateUserInfo(ud, name, number, address, postal_code) ==
    IF ~(Truthy(name) \/ Truthy(number) \/ Truthy(address) \/ Truthy(postal_code))
    THEN [ud |-> ud, text |-> "No fields provided to update."]
    ELSE LET ud1 == IF name /= None THEN [ud EXCEPT !.name = name] ELSE ud
             ud2 == IF number /= None THEN [ud1 EXCEPT !.phone_number = number] ELSE ud1
             ud3 == IF address /= None THEN [ud2 EXCEPT !.address = address] ELSE ud2
             ud4 == IF postal_code /= None THEN [ud3 EXCEPT !.postal_code = postal_code] ELSE ud3
             updated ==
                 (IF name /= None THEN << <<"name", name>> >> ELSE <<>>)
                 \o (IF number /= None THEN << <<"phone number", number>> >> ELSE <<>>)
                 \o (IF address /= None THEN << <<"address", address>> >> ELSE <<>>)
                 \o (IF postal_code /= None THEN << <<"postal code", postal_code>> >> ELSE <<>>)
         IN  [ud |-> ud4,
              text |-> "Updated: " \o
                  (IF updated /= <<>>
                   THEN Join([i \in DOMAIN updated |-> updated[i][1] \o " to " \o updated[i][2]])
                   ELSE "Nothing")]

update_user_info(s, name, number, address, postal_code) ==
    LET r == UpdateUserInfo(userdata[s], name, number, address, postal_code)
    IN  /\ userdata' = [userdata EXCEPT ![s] = r.ud]
        /\ last' = Result(s, "update_user_info", <<name, number, address, postal_code>>, FALSE, r.text)
        /\ ~ended[s]
        /\ UNCHANGED <<service_type, offered, ended, appointments>>

convince_user(s) ==
    /\ last' = Result(s, "convince_user", <<>>, FALSE,
                 "All the information is needed to ensure our agents can reach you. Without the information, I can't set the appointment")
    /\ ~ended[s]
    /\ UNCHANGED <<userdata, service_type, offered, ended, appointments>>

\* Mutant: self.service_type is assigned before the result is tested, so a
\* rejected text clears it.
UpdateReasonOfCallAssignFirst(ud, st, reason) ==
    LET r == set_reason_of_call(ud, reason)
    IN  IF Truthy(r.ret)
        THEN [ud |-> r.ud, service_type |-> r.ret,
              text |-> "The reason for call is updated to " \o reason
                       \o ". Now I can help you book an appointment. What time would you prefer?"]
        ELSE [ud |-> r.ud, service_type |-> r.ret,
              text |-> "Invalid reason. Please choose one of: " \o Join(ServiceValues)]

\* Mutant: a newly confirmed category clears the appointment.
UpdateReasonOfCallClearing(ud, st, reason) ==
    LET r == set_reason_of_call(ud, reason)
    IN  IF Truthy(r.ret)
        THEN [ud |-> [r.ud EXCEPT !.appointment_time = None], service_type |-> r.ret,
              text |-> "The reason for call is updated to " \o reason
                       \o ". Now I can help you book an appointment. What time would you prefer?"]
        ELSE [ud |-> r.ud, service_type |-> st,
              text |-> "Invalid reason. Please choose one of: " \o Join(ServiceValues)]

\* update_reason_of_call on an agent and its record: both afterwards, and the text.
UpdateReasonOfCall(ud, st, reason) ==
    LET r == set_reason_of_call(ud, reason)
    IN  IF Truthy(r.ret)
        THEN [ud |-> r.ud, service_type |-> r.ret,
              text |-> "The reason for call is updated to " \o reason
                       \o ". Now I can help you book an appointment. What time would you prefer?"]
        ELSE [ud |-> r.ud, service_type |-> st,
              text |-> "Invalid reason. Please choose one of: " \o Join(ServiceValues)]

\* Mutant: service_type is an attribute of the class, shared by every agent.
update_reason_of_call_shared(s, reason) ==
    LET r == UpdateReasonOfCall(userdata[s], service_type[s], reason)
    IN  /\ userdata' = [userdata EXCEPT ![s] = r.ud]
        /\ service_type' = [t \in Sessions |-> r.service_type]
        /\ last' = Result(s, "update_reason_of_call", <<reason>>, FALSE, r.text)
        /\ ~ended[s]
        /\ UNCHANGED <<offered, ended, appointments>>

update_reason_of_call(s, reason) ==
    LET r == UpdateReasonOfCall(userdata[s], service_type[s], reason)
    IN  /\ userdata' = [userdata EXCEPT ![s] = r.ud]
        /\ service_type' = [service_type EXCEPT ![s] = r.service_type]
        /\ last' = Result(s, "update_reason_of_call", <<reason>>, FALSE, r.text)
        /\ ~ended[s]
        /\ UNCHANGED <<offered, ended, appointments>>

\* Mutant: the availabilities are not filtered by the skill.
GetAvailableTimesAnySkill(st) ==
    IF ~Truthy(st)
    THEN "Please first tell me what type of service you need " \o Join(ServiceValues)
         \o " so I can show you available times."
    ELSE LET available_times == SortedByKey(AllSlots)
         IN  "Here are the available times for " \o ServiceValue(st) \o ": "
             \o Join([i \in DOMAIN available_times |-> SlotString(available_times[i])])
             \o ". Which time works best for you?"

\* The text get_available_times returns for an agent whose service type is st.
GetAvailableTimes(st) ==
    IF ~Truthy(st)
    THEN "Please first tell me what type of service you need " \o Join(ServiceValues)
         \o " so I can show you available times."
    ELSE LET available_times == get_all_availabilities(st)
         IN  IF available_times = <<>>
             THEN "Sorry, there are no available appointments for " \o ServiceValue(st)
                  \o " at the moment. Please try again later."
             ELSE "Here are the available times for " \o ServiceValue(st) \o ": "
                  \o Join([i \in DOMAIN available_times |-> SlotString(available_times[i])])
                  \o ". Which time works best for you?"

\* Mutant: the slot the session has booked is taken out of the list read out.
get_available_times_hiding_booked(s) ==
    LET available_times == get_all_availabilities(service_type[s])
        free == SelectSeq(available_times,
                          LAMBDA sl : SlotString(sl) /= userdata[s].appointment_time)
    IN  /\ last' = Result(s, "get_available_times", <<>>, FALSE,
                     IF ~Truthy(service_type[s]) THEN GetAvailableTimes(service_type[s])
                     ELSE "Here are the available times for " \o ServiceValue(service_type[s]) \o ": "
                          \o Join([i \in DOMAIN free |-> SlotString(free[i])])
                          \o ". Which time works best for you?")
        /\ ~ended[s]
        /\ UNCHANGED <<userdata, service_type, offered, ended, appointments>>

get_available_times(s) ==
    /\ last' = Result(s, "get_available_times", <<>>, FALSE, GetAvailableTimes(service_type[s]))
    /\ ~ended[s]
    /\ UNCHANGED <<userdata, service_type, offered, ended, appointments>>

\* The text final_double_check returns: the list of 'key: value' strings.
FinalDoubleCheck(ud) ==
    LET summary == summarize(ud)
    IN  "Let me confirm the information I have: ["
        \o Join([i \in DOMAIN summary |-> "'" \o summary[i][1] \o ": " \o Str(summary[i][2]) \o "'"])
        \o "]"

final_double_check(s) ==
    /\ last' = Result(s, "final_double_check", <<>>, FALSE, FinalDoubleCheck(userdata[s]))
    /\ ~ended[s]
    /\ UNCHANGED <<userdata, service_type, offered, ended, appointments>>

\* The loop of set_appointment_time over the captured available_times, from
\* index i: the first slot whose string equals the argument, <<>> for None.
RECURSIVE FindSlot(_, _, _)
FindSlot(available_times, appointment_time, i) ==
    IF i > Len(available_times) THEN <<>>
    ELSE IF SlotString(available_times[i]) = appointment_time
         THEN available_times[i]
         ELSE FindSlot(available_times, appointment_time, i + 1)

\* Mutant: the record's appointment is the chosen string plus the worker's name.
SetAppointmentTimeWithWorker(tool, ud, appointment_time) ==
    LET selected_slot == FindSlot(tool.available_times, appointment_time, 1)
        worker == get_next_free_worker(selected_slot)
    IN  IF selected_slot = <<>>
        THEN [ud |-> ud, raised |-> TRUE,
              text |-> "error: " \o appointment_time \o " was not found in available times."]
        ELSE IF worker = <<>>
        THEN [ud |-> ud, raised |-> TRUE,
              text |-> "error: No worker available for " \o appointment_time]
        ELSE [ud |-> [ud EXCEPT !.appointment_time = appointment_time \o " with " \o worker[1].name],
              raised |-> FALSE,
              text |-> "Perfect! I've scheduled your " \o ServiceValue(tool.service_type)
                       \o " appointment for " \o appointment_time
                       \o ". Your assigned worker will be " \o worker[1].name \o "."]

\* set_appointment_time of a built tool on a record: the record afterwards,
\* whether a ToolError was raised, and the text.
SetAppointmentTime(tool, ud, appointment_time) ==
    LET selected_slot == FindSlot(tool.available_times, appointment_time, 1)
        worker == get_next_free_worker(selected_slot)
    IN  IF selected_slot = <<>>
        THEN [ud |-> ud, raised |-> TRUE,
              text |-> "error: " \o appointment_time \o " was not found in available times."]
        ELSE IF worker = <<>>
        THEN [ud |-> ud, raised |-> TRUE,
              text |-> "error: No worker available for " \o appointment_time]
        ELSE [ud |-> [ud EXCEPT !.appointment_time = appointment_time], raised |-> FALSE,
              text |-> "Perfect! I've scheduled your " \o ServiceValue(tool.service_type)
                       \o " appointment for " \o appointment_time
                       \o ". Your assigned worker will be " \o worker[1].name \o "."]

\* The booking tool among the tools last handed to the language model.
BookingTools(ts) == {ts[i] : i \in {j \in DOMAIN ts : ts[j].name = "set_appointment_time"}}

\* Mutant: a slot another session has booked is refused.
set_appointment_time_exclusive(s, appointment_time) ==
    \E tool \in BookingTools(offered[s]) :
        LET taken == \E t \in Sessions \ {s} : userdata[t].appointment_time = appointment_time
            r == IF taken
                 THEN [ud |-> userdata[s], raised |-> TRUE,
                       text |-> "error: No worker available for " \o appointment_time]
                 ELSE SetAppointmentTime(tool, userdata[s], appointment_time)
        IN  /\ userdata' = [userdata EXCEPT ![s] = r.ud]
            /\ last' = Result(s, "set_appointment_time", <<appointment_time>>, r.raised, r.text)
            /\ ~ended[s]
            /\ UNCHANGED <<service_type, offered, ended, appointments>>

set_appointment_time(s, appointment_time) ==
    \E tool \in BookingTools(offered[s]) :
        LET r == SetAppointmentTime(tool, userdata[s], appointment_time)
        IN  /\ userdata' = [userdata EXCEPT ![s] = r.ud]
            /\ last' = Result(s, "set_appointment_time", <<appointment_time>>, r.raised, r.text)
            /\ ~ended[s]
            /\ UNCHANGED <<service_type, offered, ended, appointments>>

\* The framework reads the tools property before it asks the language model
\* for its next call.
ReadTools(s) ==
    /\ offered' = [offered EXCEPT ![s] = tools(service_type[s])]
    /\ last' = Result(s, "tools", <<>>, FALSE, "")
    /\ ~ended[s]
    /\ UNCHANGED <<userdata, service_type, ended, appointments>>

\* save_userdata_to_json on the lines of appointments.jsonl: summarize() plus
\* the timestamp and the room name, appended as one more line.  Nothing in
\* agent.py calls it.
save_userdata_to_json(file, ud, room_name, now) ==
    Append(file, [summary |-> summarize(ud), timestamp |-> now, room_name |-> room_name])

\* The call ends (hang-up, job shutdown).  entrypoint registers no shutdown
\* callback and does nothing after session.start, so nothing is written.
EndCall(s) ==
    /\ ~ended[s]
    /\ ended' = [ended EXCEPT ![s] = TRUE]
    /\ last' = Result(s, "end", <<>>, FALSE, "")
    /\ UNCHANGED <<userdata, service_type, offered, appointments>>

\* entrypoint: every session starts with UserData() and VoiceAgent();
\* appointments.jsonl has no line yet.
Init ==
    /\ userdata = [s \in Sessions |-> UserDataInit]
    /\ service_type = [s \in Sessions |-> None]
    /\ offered = [s \in Sessions |-> tools(None)]
    /\ last = Result("s1", "tools", <<>>, FALSE, "")
    /\ ended = [s \in Sessions |-> FALSE]
    /\ appointments = <<>>

Next ==
    \E s \in Callers :
        \/ \E name \in NameArgs, number \in NumberArgs, address \in AddressArgs, postal_code \in PostalArgs :
               update_user_info(s, name, number, address, postal_code)
        \/ convince_user(s)
        \/ \E reason \in ReasonArgs : update_reason_of_call(s, reason)
        \/ get_available_times(s)
        \/ final_double_check(s)
        \/ \E appointment_time \in TimeArgs : set_appointment_time(s, appointment_time)
        \/ ReadTools(s)
        \/ EndCall(s)

Spec == Init /\ [][Next]_vars

\* Two calls in progress at once.  Each job runs entrypoint on its own; the
\* arguments are a smaller choice of the same kinds.
TwoNameArgs == {None, "Sam"}
TwoReasonArgs == {"Plumbing", "Roofing Issues", "Gardening"}
TwoTimeArgs == {"2025-08-22 at 12:00", "2025-08-23 at 11:00", "2025-08-21 at 09:00"}

NextTwo ==
    \E s \in Sessions :
        \/ \E name \in TwoNameArgs : update_user_info(s, name, None, None, None)
        \/ convince_user(s)
        \/ \E reason \in TwoReasonArgs : update_reason_of_call(s, reason)
        \/ get_available_times(s)
        \/ final_double_check(s)
        \/ \E appointment_time \in TwoTimeArgs : set_appointment_time(s, appointment_time)
        \/ ReadTools(s)
        \/ EndCall(s)

SpecTwo == Init /\ [][NextTwo]_vars

\* ------------------------------------------------------------------ claims

\* The step just taken was a call of tool op in session s.
CalledNow(op, s) == last'.op = op /\ last'.session = s

\* Session s is in S0: no service category has been confirmed.
InS0(s) == service_type[s] = None

\* The names in the list the tools property yields, per value of
\* self.service_type.
ToolNames == [st \in Range(ServiceType) \cup {None} |-> Names(tools(st))]

\* The booking tool is in the list the tools property yields for session s.
BookOffered(s) == "set_appointment_time" \in ToolNames[service_type[s]]

\* The booking tool is in the list last handed to the language model.
BookHanded(s) == "set_appointment_time" \in Names(offered[s])

\* The display values of the catalog, written out.
CatalogValues == {"Plumbing", "Pest Control", "Roofing Issues"}

\* C1 as stated: in S0 the capabilities offered are exactly update contact
\* info, the refusal response, set service category and finalize; listing
\* the available times and booking are not offered.
C1_Original ==
    \A s \in Sessions :
        InS0(s) => Names(offered[s]) =
            {"update_user_info", "convince_user", "update_reason_of_call", "final_double_check"}

\* C1 amended: in S0 the capabilities offered are exactly update contact info,
\* the refusal response, set service category, list available times and
\* finalize; only booking is withheld until a category is confirmed.
C1_S0Capabilities ==
    \A s \in Sessions :
        InS0(s) =>
            /\ Names(offered[s]) =
                   {"update_user_info", "convince_user", "update_reason_of_call",
                    "get_available_times", "final_double_check"}
            /\ ToolNames[service_type[s]] = Names(offered[s])
            /\ Len(offered[s]) = 5

\* C1 witness: still in S0 after a rejected category, with the tools read again.
C1_Witness ==
    /\ InS0("s1")
    /\ last.op = "tools"
    /\ userdata["s1"].name = "Sam"

\* C2: booking is offered iff update_reason_of_call has succeeded in the
\* session: it is not offered at the start, it starts being offered exactly
\* at a successful update_reason_of_call, and no later call withdraws it or
\* resets the confirmed category to None.
C2_BookingOfferedOnceConfirmed ==
    /\ \A s \in Sessions : ~BookOffered(s) /\ ~BookHanded(s)
    /\ [][\A s \in Sessions :
            /\ BookOffered(s) => BookOffered(s)' /\ service_type'[s] /= None
            /\ BookHanded(s) => BookHanded(s)' /\ BookOffered(s)
            /\ (~BookOffered(s) /\ BookOffered(s)') =>
                   CalledNow("update_reason_of_call", s) /\ last'.args[1] \in CatalogValues
            /\ (CalledNow("update_reason_of_call", s) /\ last'.args[1] \in CatalogValues) =>
                   BookOffered(s)'
            /\ (~BookHanded(s) /\ BookHanded(s)') => BookOffered(s)
         ]_vars

\* C2 witness: booking is still handed out after a booking and a rejected category.
C2_Witness ==
    /\ last.op = "update_reason_of_call"
    /\ last.args = <<"Gardening">>
    /\ BookOffered("s1") /\ BookHanded("s1")
    /\ userdata["s1"].appointment_time /= None

\* C3: update_reason_of_call succeeds iff the text is exactly one of the three
\* display values; on success the record's reason is that value and the
\* agent's service type is the member with that value; on failure the record,
\* the confirmed category and the tools are unchanged and the text returned
\* lists the three values in declaration order.
C3_SetServiceCategory ==
    [][\A s \in Sessions :
          CalledNow("update_reason_of_call", s) =>
              LET reason == last'.args[1]
              IN  IF reason \in CatalogValues
                  THEN /\ userdata'[s] = [userdata[s] EXCEPT !.reason_of_call = reason]
                       /\ service_type'[s] \in Range(ServiceType)
                       /\ ServiceValue(service_type'[s]) = reason
                       /\ last'.text = "The reason for call is updated to " \o reason
                              \o ". Now I can help you book an appointment. What time would you prefer?"
                  ELSE /\ userdata' = userdata
                       /\ service_type' = service_type
                       /\ offered' = offered
                       /\ BookOffered(s)' = BookOffered(s)
                       /\ last'.text =
                              "Invalid reason. Please choose one of: Plumbing, Pest Control, Roofing Issues"
      ]_vars

\* C3 witness: a text differing only in case was rejected while another
\* category stays confirmed.
C3_Witness ==
    /\ last.op = "update_reason_of_call"
    /\ last.args = <<"plumbing">>
    /\ service_type["s1"] = "PEST_CONTROL"
    /\ userdata["s1"].reason_of_call = "Pest Control"

\* The tool call whose result is current was a booking that succeeded in s.
Booked(s) == last.op = "set_appointment_time" /\ last.session = s /\ ~last.raised

\* The confirmation text for a service value, a slot string and a worker name.
Confirmation(service, slot, worker) ==
    "Perfect! I've scheduled your " \o service \o " appointment for " \o slot
        \o ". Your assigned worker will be " \o worker \o "."

WorkerNames == {"Masih", "Ali"}

ListedStrings ==
    [st \in Range(ServiceType) \cup {None} |->
        {SlotString(sl) : sl \in Range(get_all_availabilities(st))}]

\* C5: a booking with a string that is not the string of a slot available for
\* the confirmed category raises the not-found error and leaves the record,
\* the confirmed category and the tools unchanged.
C5_SlotNotFound ==
    [][\A s \in Sessions :
          (CalledNow("set_appointment_time", s)
              /\ last'.args[1] \notin ListedStrings[service_type[s]]) =>
                 /\ last'.raised
                 /\ last'.text = "error: " \o last'.args[1] \o " was not found in available times."
                 /\ userdata' = userdata
                 /\ service_type' = service_type
                 /\ offered' = offered
      ]_vars

\* The fields of the record that update_user_info can write, with the index
\* of the argument for each.
ContactFields ==
    << "name", "phone_number", "address", "postal_code" >>

ContactLabels ==
    << "name", "phone number", "address", "postal code" >>

\* The (label to value) entries a call with these arguments should list.
RECURSIVE Listed(_, _)
Listed(args, i) ==
    IF i > Len(args) THEN <<>>
    ELSE (IF args[i] /= None THEN <<ContactLabels[i] \o " to " \o args[i]>> ELSE <<>>)
         \o Listed(args, i + 1)

\* C6: update_user_info with at least one argument that is not None sets every
\* field whose argument is not None (an empty string included), leaves the
\* other fields, the category, the appointment and the tools unchanged, and
\* lists exactly the supplied fields.
C6_UpdateContactInfo ==
    [][\A s \in Sessions :
          (CalledNow("update_user_info", s) /\ \E i \in 1..4 : last'.args[i] /= None) =>
              /\ \A i \in 1..4 :
                     userdata'[s][ContactFields[i]] =
                         IF last'.args[i] /= None THEN last'.args[i]
                         ELSE userdata[s][ContactFields[i]]
              /\ userdata'[s].reason_of_call = userdata[s].reason_of_call
              /\ userdata'[s].appointment_time = userdata[s].appointment_time
              /\ service_type' = service_type
              /\ offered' = offered
              /\ last'.text = "Updated: " \o Join(Listed(last'.args, 1))
      ]_vars

\* C7: update_user_info with all four arguments None returns "No fields
\* provided to update." and changes neither the record, nor the confirmed
\* category, nor the tools.
C7_NoFieldsProvided ==
    [][\A s \in Sessions :
          (CalledNow("update_user_info", s) /\ last'.args = <<None, None, None, None>>) =>
              /\ last'.text = "No fields provided to update."
              /\ ~last'.raised
              /\ userdata' = userdata
              /\ service_type' = service_type
              /\ offered' = offered
      ]_vars

\* C7 witness: the empty update was made in S2, with contact fields set.
C7_Witness ==
    /\ last.op = "update_user_info"
    /\ last.args = <<None, None, None, None>>
    /\ userdata["s1"].name = "Sam"
    /\ userdata["s1"].appointment_time /= None
    /\ BookHanded("s1")

\* Slot a is strictly before slot b: earlier date, or same date and earlier time.
Before(a, b) ==
    LET ka == <<a[1][1], a[1][2], a[1][3], a[2][1], a[2][2]>>
        kb == <<b[1][1], b[1][2], b[1][3], b[2][1], b[2][2]>>
    IN  \E i \in 1..5 : ka[i] < kb[i] /\ \A j \in 1..(i - 1) : ka[j] = kb[j]

\* The free slots of the workers skilled in c, as a set.
FreeSlots(c) ==
    {sl \in AllSlots :
        \E i \in DOMAIN get_workers :
            /\ \E k \in DOMAIN get_workers[i].skills : get_workers[i].skills[k] = c
            /\ \E k \in DOMAIN get_workers[i].availabilities :
                   get_workers[i].availabilities[k] = sl}

\* seq lists exactly the free slots of the workers skilled in c, strictly
\* ascending (hence without duplicates).
ListsFreeSlots(seq, c) ==
    /\ Range(seq) = FreeSlots(c)
    /\ \A i, j \in DOMAIN seq : i < j => Before(seq[i], seq[j])
    /\ (FreeSlots(c) = {}) = (seq = <<>>)

\* The directory part of C8, over every category and over no category.
DirectoryListsFreeSlots ==
    /\ \A c \in Range(ServiceType) \cup {None} :
           ListsFreeSlots(get_all_availabilities(c), c)
    /\ get_all_availabilities("PLUMBING") =
           << Slot(2025, 8, 21, 16, 0), Slot(2025, 8, 21, 17, 0), Slot(2025, 8, 22, 10, 0),
              Slot(2025, 8, 22, 12, 0), Slot(2025, 8, 23, 11, 0), Slot(2025, 8, 23, 18, 0) >>
    /\ get_all_availabilities(None) = <<>>

\* The text get_available_times should return for a list of slots.
ListingText ==
    [c \in Range(ServiceType) |->
        "Here are the available times for " \o ServiceValue(c) \o ": "
            \o Join([i \in 1..Cardinality(FreeSlots(c)) |->
                       SlotString(CHOOSE sl \in FreeSlots(c) :
                           Cardinality({x \in FreeSlots(c) : Before(x, sl)}) = i - 1)])
            \o ". Which time works best for you?"]

\* C8: get_all_availabilities(c) is the set of free slots of the workers
\* skilled in c as a strictly ascending sequence without duplicates, empty when
\* no worker has the skill; so are the list every built booking tool holds and
\* the list get_available_times reads out.
C8_AllAvailableSlots ==
    /\ DirectoryListsFreeSlots
    /\ \A s \in Sessions :
           /\ \A tool \in BookingTools(offered[s]) :
                  ListsFreeSlots(tool.available_times, tool.service_type)
           /\ (last.op = "get_available_times" /\ last.session = s /\ ~InS0(s)) =>
                  last.text = ListingText[service_type[s]]

\* C8 witness: the times were listed for Plumbing, where Masih and Ali share a
\* slot, with the booking tool built for Plumbing.
C8_Witness ==
    /\ last.op = "get_available_times"
    /\ service_type["s1"] = "PLUMBING"
    /\ \E tool \in BookingTools(offered["s1"]) :
           tool.service_type = "PLUMBING" /\ Len(tool.available_times) = 6

\* The worker firstFreeWorker should return for a slot: the holder with the
\* least registration index, <<>> when none holds it.
Holders(sl) ==
    {i \in DOMAIN get_workers :
        \E k \in DOMAIN get_workers[i].availabilities : get_workers[i].availabilities[k] = sl}

FirstHolder(sl) ==
    IF Holders(sl) = {} THEN <<>>
    ELSE <<get_workers[CHOOSE i \in Holders(sl) : \A j \in Holders(sl) : i <= j]>>

\* Slots no worker holds: an unlisted time, and Ali's date with Masih's time.
ProbeSlots == AllSlots \cup {Slot(2025, 8, 21, 9, 0), Slot(2025, 8, 23, 16, 0)}

\* The directory part of C9.
DirectoryFirstFreeWorker ==
    /\ \A sl \in ProbeSlots : get_next_free_worker(sl) = FirstHolder(sl)
    /\ get_next_free_worker(Slot(2025, 8, 22, 12, 0))[1].name = "Masih"
    /\ get_next_free_worker(Slot(2025, 8, 23, 16, 0)) = <<>>

\* The worker a successful booking of a slot string should name.
ExpectedWorker ==
    [str \in {SlotString(sl) : sl \in AllSlots} |->
        FirstHolder(CHOOSE sl \in AllSlots : SlotString(sl) = str)[1].name]

\* C9: get_next_free_worker returns the first worker in registration order
\* whose availabilities contain the slot, None when there is none; whatever
\* was called before, a successful booking of a slot names that worker.
C9_FirstFreeWorker ==
    /\ DirectoryFirstFreeWorker
    /\ \A s \in Sessions :
           Booked(s) =>
               \E service \in CatalogValues :
                   last.text = Confirmation(service, last.args[1], ExpectedWorker[last.args[1]])

\* C9 witness: the slot both workers hold was booked through a Roofing tool
\* after an earlier booking in the session.
C9_Witness ==
    /\ Booked("s1")
    /\ last.args = <<"2025-08-22 at 12:00">>
    /\ \E tool \in BookingTools(offered["s1"]) : tool.service_type = "ROOFING_ISSUES"
    /\ userdata["s1"].name = "Sam"

\* What summarize() should show for a name or a phone number.
Shown(v) == IF v = None \/ v = "" THEN "unknown" ELSE v

\* What the readback should show for a field without a default.
Plain(v) == IF v = None THEN "None" ELSE v

\* The readback text expected for a record.
Readback(ud) ==
    "Let me confirm the information I have: ['customer_name: " \o Shown(ud.name)
        \o "', 'customer_phone: " \o Shown(ud.phone_number)
        \o "', 'address: " \o Plain(ud.address)
        \o "', 'postal_code: " \o Plain(ud.postal_code)
        \o "', 'reason_of_call: " \o Plain(ud.reason_of_call)
        \o "', 'appointment_time: " \o Plain(ud.appointment_time) \o "']"

\* C10: final_double_check is offered in every state, never raises, changes
\* neither the record, nor the confirmed category, nor the tools, and returns
\* the readback of the record, with an unset name and phone as "unknown" and
\* the other unset fields as None; called again with nothing in between it
\* returns the same text.
C10_FinalDoubleCheck ==
    /\ [][\A s \in Sessions :
             CalledNow("final_double_check", s) =>
                 /\ ~last'.raised
                 /\ userdata' = userdata
                 /\ service_type' = service_type
                 /\ offered' = offered
                 /\ last'.text = Readback(userdata[s])
                 /\ (last.op = "final_double_check" /\ last.session = s) => last'.text = last.text
         ]_vars
    /\ [](\A s \in Sessions :
             /\ "final_double_check" \in Names(offered[s])
             /\ "final_double_check" \in ToolNames[service_type[s]]
             /\ (last.op = "final_double_check" /\ last.session = s) =>
                    last.text = Readback(userdata[s]))

\* C10 witness: the readback was given in S2 with the name and the address unset.
C10_Witness ==
    /\ last.op = "final_double_check"
    /\ userdata["s1"].appointment_time /= None
    /\ userdata["s1"].name = None
    /\ userdata["s1"].address = None
    /\ userdata["s1"].phone_number = "555"

\* C11: after the readback of final_double_check the language model can call
\* call completion, and a session whose call has ended has one line in
\* appointments.jsonl holding its summary under its room name.
C11_CallCompletion ==
    \A s \in Sessions :
        /\ (last.op = "final_double_check" /\ last.session = s) =>
               "complete_conversation" \in Names(offered[s])
        /\ ended[s] =>
               \E i \in DOMAIN appointments :
                   /\ appointments[i].room_name = s
                   /\ appointments[i].summary = summarize(userdata[s])

\* C12: no call changes the workers table: after a booking the booked slot is
\* still read out by get_available_times, still in the list of every booking
\* tool built afterwards, and still answered with the same worker.
C12_DirectoryUnchanged ==
    \A s \in Sessions :
        userdata[s].appointment_time /= None =>
            /\ (last.op = "get_available_times" /\ last.session = s) =>
                   last.text = ListingText[service_type[s]]
            /\ \A tool \in BookingTools(offered[s]) :
                   Range(tool.available_times) = FreeSlots(tool.service_type)
            /\ \E sl \in AllSlots :
                   /\ SlotString(sl) = userdata[s].appointment_time
                   /\ get_next_free_worker(sl) = FirstHolder(sl)
                   /\ \E c \in Range(ServiceType) : sl \in FreeSlots(c)

\* C12 witness: the times were read out for Plumbing after a Plumbing slot
\* had been booked and the tools read again.
C12_Witness ==
    /\ last.op = "get_available_times"
    /\ service_type["s1"] = "PLUMBING"
    /\ userdata["s1"].appointment_time = "2025-08-21 at 16:00"
    /\ last.text = "Here are the available times for Plumbing: 2025-08-21 at 16:00, 2025-08-21 at 17:00, 2025-08-22 at 10:00, 2025-08-22 at 12:00, 2025-08-23 at 11:00, 2025-08-23 at 18:00. Which time works best for you?"

\* C13: with two calls in progress, a booking whose string is in the list of
\* the session's booking tool succeeds and names the first holder of the slot,
\* whatever the other session has booked; so both sessions can hold the same
\* slot with the same worker.
C13_DoubleBooking ==
    [][\A s \in Sessions :
          \A tool \in BookingTools(offered[s]) :
              (CalledNow("set_appointment_time", s)
                  /\ last'.args[1] \in Range(tool.available_time_strings)) =>
                     /\ ~last'.raised
                     /\ userdata'[s].appointment_time = last'.args[1]
                     /\ last'.text = Confirmation(ServiceValue(tool.service_type), last'.args[1],
                                                  ExpectedWorker[last'.args[1]])
      ]_vars

\* C13 witness: s2 has just booked the slot s1 already holds, and is given
\* Masih, the worker every booking of that slot is given.
C13_Witness ==
    /\ Booked("s2")
    /\ last.args = <<"2025-08-22 at 12:00">>
    /\ userdata["s1"].appointment_time = "2025-08-22 at 12:00"
    /\ userdata["s2"].appointment_time = "2025-08-22 at 12:00"
    /\ \E service \in CatalogValues :
           last.text = Confirmation(service, "2025-08-22 at 12:00", "Masih")

\* C14 as stated: once the record holds an appointment no later call, a
\* further booking included, clears or changes it.
C14_Original ==
    [][\A s \in Sessions :
          userdata[s].appointment_time /= None =>
              userdata'[s].appointment_time = userdata[s].appointment_time
      ]_vars

\* C14 amended: once the record holds an appointment no later call clears it,
\* and only a further successful booking changes it, to the string then chosen.
C14_AppointmentKept ==
    [][\A s \in Sessions :
          userdata[s].appointment_time /= None =>
              /\ userdata'[s].appointment_time /= None
              /\ userdata'[s].appointment_time /= userdata[s].appointment_time =>
                     /\ CalledNow("set_appointment_time", s)
                     /\ ~last'.raised
                     /\ userdata'[s].appointment_time = last'.args[1]
      ]_vars

\* C14 witness: with an appointment held, another category was confirmed and
\* the appointment is still the one booked before.
C14_Witness ==
    /\ last.op = "update_reason_of_call"
    /\ last.args = <<"Pest Control">>
    /\ service_type["s1"] = "PEST_CONTROL"
    /\ userdata["s1"].appointment_time = "2025-08-23 at 11:00"

\* The texts with which a tool reports that it did nothing.
FailureTexts ==
    {"No fields provided to update.",
     "Invalid reason. Please choose one of: Plumbing, Pest Control, Roofing Issues",
     "Please first tell me what type of service you need Plumbing, Pest Control, Roofing Issues so I can show you available times."}

ToolOps ==
    {"update_user_info", "convince_user", "update_reason_of_call", "get_available_times",
     "final_double_check", "set_appointment_time"}

\* C15: every tool call in every state returns a text or raises a ToolError
\* with one of the two booking errors, and a call that reports a failure
\* changes nothing; get_available_times before a category is confirmed
\* returns the prompt to give the service type first, afterwards the list
\* of exactly the slots of the confirmed category, and never changes anything.
C15_CallsAreSafe ==
    [][\A s \in Sessions :
          /\ (last'.session = s /\ last'.op \in ToolOps) =>
                 /\ last'.raised =>
                        /\ last'.op = "set_appointment_time"
                        /\ last'.text \in
                               {"error: " \o last'.args[1] \o " was not found in available times.",
                                "error: No worker available for " \o last'.args[1]}
                 /\ (last'.raised \/ last'.text \in FailureTexts) =>
                        /\ userdata' = userdata
                        /\ service_type' = service_type
                        /\ offered' = offered
          /\ CalledNow("get_available_times", s) =>
                 /\ ~last'.raised
                 /\ userdata' = userdata
                 /\ service_type' = service_type
                 /\ offered' = offered
                 /\ InS0(s) =>
                        last'.text = "Please first tell me what type of service you need Plumbing, Pest Control, Roofing Issues so I can show you available times."
                 /\ ~InS0(s) => last'.text = ListingText[service_type[s]]
      ]_vars

\* C15 witness: the times were asked for before any category was confirmed,
\* with a contact field already set.
C15_Witness ==
    /\ last.op = "get_available_times"
    /\ InS0("s1")
    /\ last.text \in FailureTexts
    /\ userdata["s1"].name = "Sam"

\* C16: a call made in one session leaves the customer record, the confirmed
\* service category and the offered tools of every other session unchanged.
C16_SessionsIsolated ==
    [][\A s \in Sessions : \A t \in Sessions \ {s} :
          last'.session = s =>
              /\ userdata'[t] = userdata[t]
              /\ service_type'[t] = service_type[t]
              /\ offered'[t] = offered[t]
      ]_vars

\* C16 witness: two sessions with different categories and different records,
\* the second one having just confirmed its category.
C16_Witness ==
    /\ last.op = "update_reason_of_call" /\ last.session = "s2"
    /\ service_type["s1"] = "PLUMBING"
    /\ service_type["s2"] = "ROOFING_ISSUES"
    /\ userdata["s1"].name = "Sam"
    /\ userdata["s2"].name = None
    /\ userdata["s1"].reason_of_call = "Plumbing"

\* The display value of a confirmed category (None has none).
ValueOf ==
    [st \in Range(ServiceType) \cup {None} |->
        IF st = None THEN None ELSE ServiceValue(st)]

\* C17: a booking is matched against the slots of the category confirmed at
\* the time of the call, not of the category confirmed when the booking tool
\* was built: it succeeds exactly for the slot strings of the current
\* category and its confirmation names the current category.
C17_FreshSlotList ==
    [][\A s \in Sessions :
          CalledNow("set_appointment_time", s) =>
              /\ ~last'.raised <=> last'.args[1] \in ListedStrings[service_type[s]]
              /\ ~last'.raised =>
                     \E w \in WorkerNames :
                         last'.text = Confirmation(ValueOf[service_type[s]], last'.args[1], w)
      ]_vars

\* The names of the workers skilled in a category.
SkilledNames ==
    [st \in Range(ServiceType) |->
        {get_workers[i].name : i \in {j \in DOMAIN get_workers : st \in Range(get_workers[j].skills)}}]

\* C18: after a successful booking made with a tool built for the currently
\* confirmed category, the worker named in the confirmation is skilled in
\* that category.
C18_WorkerHasSkill ==
    \A s \in Sessions :
        (Booked(s) /\ \A tool \in BookingTools(offered[s]) : tool.service_type = service_type[s]) =>
            \E w \in SkilledNames[service_type[s]] :
                last.text = Confirmation(ValueOf[service_type[s]], last.args[1], w)

\* The slot strings listed for a recorded reason of call.
ListedForReason ==
    [r \in CatalogValues |->
        ListedStrings[CHOOSE st \in Range(ServiceType) : ServiceValue(st) = r]]

\* C19: whenever the record holds an appointment it also holds a category,
\* and the appointment is the string of a slot available for that category.
C19_AppointmentFitsCategory ==
    \A s \in Sessions :
        userdata[s].appointment_time /= None =>
            /\ userdata[s].reason_of_call \in CatalogValues
            /\ userdata[s].appointment_time \in ListedForReason[userdata[s].reason_of_call]

\* Every slot listed for some category is held by a worker the scan finds.
DirectoryAlwaysStaffed ==
    \A st \in Range(ServiceType) :
        \A sl \in Range(get_all_availabilities(st)) : get_next_free_worker(sl) /= <<>>

\* C20: the no-worker error never happens: every slot listed for a category
\* has a worker, no booking ends with the no-worker error, and a booking
\* whose string is in the list its tool was built with succeeds.
C20_NoWorkerUnreachable ==
    /\ DirectoryAlwaysStaffed
    /\ \A s \in Sessions :
           (last.op = "set_appointment_time" /\ last.session = s) =>
               /\ last.text /= "error: No worker available for " \o last.args[1]
               /\ \A tool \in BookingTools(offered[s]) :
                      last.args[1] \in ListedStrings[tool.service_type] => ~last.raised

\* C20 witness: a slot only the first registered worker holds was booked.
C20_Witness ==
    /\ Booked("s1")
    /\ last.args = <<"2025-08-21 at 17:00">>
    /\ service_type["s1"] = "PEST_CONTROL"
    /\ userdata["s1"].appointment_time = "2025-08-21 at 17:00"
    /\ userdata["s1"].phone_number = "555"

====
